---- MODULE Spec2Model ----
(***************************************************************************)
(* Model of src/text_utils.py: the Markdown section navigator              *)
(* (get_titles_at_level, find_section_by_title, navigate_sections).        *)
(*                                                                         *)
(* A Python str is a sequence of one-character strings; a Python list is a *)
(* sequence; an Optional[int] is <<>> (None) or <<n>>; a dict is a record  *)
(* holding exactly the keys the code sets.  Python indices are kept        *)
(* 0-based, so lines[i] of the code is lines[i + 1] here.                  *)
(***************************************************************************)
EXTENDS Integers, Sequences, FiniteSets, TLC

VARIABLES pc, call, current_content, current_level, status_list,
          last_result, idx, lookups, result

vars == <<pc, call, current_content, current_level, status_list,
          last_result, idx, lookups, result>>

---------------------------------------------------------------------------
(* Bounds of the inputs.                                                   *)

MaxLines == 3
MaxPath == 2
LongLen == 22
MaxLevelArg == 2
MaxRichLines == 2

\* The number of navigate_sections calls running at once, and the longest
\* title_path they are given.
MaxCalls == 2
ConcPath == 1

---------------------------------------------------------------------------
(* Python string primitives.                                               *)

IsWs(c) == c \in {" ", "\t"}

SetMin(S) == CHOOSE x \in S : \A y \in S : x <= y

SetMax(S) == CHOOSE x \in S : \A y \in S : x >= y

\* str.strip()
Strip(s) ==
    LET nonws == {i \in 1..Len(s) : ~IsWs(s[i])}
    IN  IF nonws = {} THEN <<>> ELSE SubSeq(s, SetMin(nonws), SetMax(nonws))

\* str.startswith(prefix)
StartsWith(s, prefix) ==
    /\ Len(prefix) <= Len(s)
    /\ SubSeq(s, 1, Len(prefix)) = prefix

\* str.endswith(suffix)
EndsWith(s, suffix) ==
    /\ Len(suffix) <= Len(s)
    /\ SubSeq(s, Len(s) - Len(suffix) + 1, Len(s)) = suffix

\* s[:k], for any integer k (a negative k counts from the end)
SliceTo(s, k) ==
    IF k >= 0
    THEN SubSeq(s, 1, IF k < Len(s) THEN k ELSE Len(s))
    ELSE SubSeq(s, 1, IF Len(s) + k > 0 THEN Len(s) + k ELSE 0)

\* '#' * n (the empty string when n <= 0)
Hashes(n) == [i \in 1..n |-> "#"]

\* content.split('\n'): the pieces between consecutive newlines (one piece for
\* a text without newline, the empty text included).
Split(s) ==
    LET breaks == SelectSeq([i \in 1..Len(s) |-> i], LAMBDA i : s[i] = "\n")
        from(k) == IF k = 1 THEN 1 ELSE breaks[k - 1] + 1
        upto(k) == IF k = Len(breaks) + 1 THEN Len(s) ELSE breaks[k] - 1
    IN  [k \in 1..(Len(breaks) + 1) |-> SubSeq(s, from(k), upto(k))]

RECURSIVE Join(_)
\* '\n'.join(lines)
Join(lines) ==
    IF lines = <<>> THEN <<>>
    ELSE IF Len(lines) = 1 THEN lines[1]
    ELSE lines[1] \o <<"\n">> \o Join(Tail(lines))

RECURSIVE SelectLines(_, _)
SelectLines(lines, keep) ==
    IF lines = <<>> THEN <<>>
    ELSE IF keep[1] THEN <<lines[1]>> \o SelectLines(Tail(lines), Tail(keep))
    ELSE SelectLines(Tail(lines), Tail(keep))

---------------------------------------------------------------------------
(* The heading pattern  ^{heading_mark}\s+(.+?)\s*$  under re.match.        *)

\* The text after the marks, when the line starts with heading_mark.
AfterMark(line, heading_mark) == SubSeq(line, Len(heading_mark) + 1, Len(line))

\* re.match(pattern, line) is not None: the marks, at least one whitespace
\* character, at least one further character.
PatternMatches(line, heading_mark) ==
    /\ StartsWith(line, heading_mark)
    /\ LET rest == AfterMark(line, heading_mark)
       IN  /\ Len(rest) >= 2
           /\ IsWs(rest[1])

\* match.group(1): \s+ is greedy and gives back one character when the rest
\* is all whitespace; (.+?) is the shortest text followed only by whitespace.
Group1(line, heading_mark) ==
    LET rest == AfterMark(line, heading_mark)
        nonws == {i \in 1..Len(rest) : ~IsWs(rest[i])}
    IN  IF nonws = {} THEN <<rest[Len(rest)]>>
        ELSE SubSeq(rest, SetMin(nonws), SetMax(nonws))

\* match.group(1).strip()
MatchedTitle(line, heading_mark) == Strip(Group1(line, heading_mark))

---------------------------------------------------------------------------
(* get_titles_at_level(content, heading_level)                             *)

RECURSIVE TitlesOf(_, _)
TitlesOf(lines, heading_mark) ==
    IF lines = <<>> THEN <<>>
    ELSE IF PatternMatches(lines[1], heading_mark)
    THEN <<MatchedTitle(lines[1], heading_mark)>> \o TitlesOf(Tail(lines), heading_mark)
    ELSE TitlesOf(Tail(lines), heading_mark)

get_titles_at_level(content, heading_level) ==
    TitlesOf(Split(content), Hashes(heading_level))

---------------------------------------------------------------------------
(* find_section_by_title(content, target_title, heading_level)             *)

\* line.startswith(heading_mark + ' ')
IsSameLevelLine(line, heading_mark) == StartsWith(line, heading_mark \o <<" ">>)

\* The locals of the scan before its first iteration.
ScanInit == [target_idx |-> -1, next_same_idx |-> -1,
             same_level_indices |-> <<>>, raised |-> FALSE]

\* What the scan does with a same-level line whose title is target_title.
OnTitleMatch(st, i) == [st EXCEPT !.target_idx = i]

RECURSIVE ScanLines(_, _, _, _, _)
\* The loop over enumerate(lines), from index i on.  re.match(...).group(1)
\* raises AttributeError when the line starts with the marks and a space but
\* the pattern does not match it (raised); the break ends the loop.
ScanLines(lines, heading_mark, target_title, i, st) ==
    IF i >= Len(lines) THEN st
    ELSE LET line == lines[i + 1]
             st1 == [st EXCEPT !.same_level_indices = Append(@, i)]
         IN  IF ~IsSameLevelLine(line, heading_mark)
             THEN ScanLines(lines, heading_mark, target_title, i + 1, st)
             ELSE IF ~PatternMatches(line, heading_mark)
             THEN [st1 EXCEPT !.raised = TRUE]
             ELSE IF MatchedTitle(line, heading_mark) = target_title
             THEN ScanLines(lines, heading_mark, target_title, i + 1,
                            OnTitleMatch(st1, i))
             ELSE IF st1.target_idx >= 0
             THEN [st1 EXCEPT !.next_same_idx = i]
             ELSE ScanLines(lines, heading_mark, target_title, i + 1, st1)

\* The locals target_idx, next_same_idx, same_level_indices after the scan.
find_scan(content, target_title, heading_level) ==
    ScanLines(Split(content), Hashes(heading_level), target_title, 0, ScanInit)

\* The test that keeps a line standing before the first same-level heading.
IsContextLine(line, heading_level) ==
    \/ \E l \in 1..(heading_level - 1) : StartsWith(line, Hashes(l) \o <<" ">>)
    \/ ~ \E l \in 1..heading_level : StartsWith(line, Hashes(l) \o <<" ">>)

\* end_idx = next_same_idx if next_same_idx >= 0 else len(lines)
SectionEnd(st, lines) ==
    IF st.next_same_idx >= 0 THEN st.next_same_idx ELSE Len(lines)

\* A window that starts after the target heading: the body without its title.
ResultLines_body_only(lines, heading_level, st) ==
    LET first == st.same_level_indices[1]
        context == SelectLines(SubSeq(lines, 1, first),
                               [i \in 1..first |-> IsContextLine(lines[i], heading_level)])
    IN  context \o SubSeq(lines, st.target_idx + 2, SectionEnd(st, lines))

\* result_lines: the context lines, then lines[target_idx:end_idx].
ResultLines(lines, heading_level, st) ==
    LET first == st.same_level_indices[1]
        context == SelectLines(SubSeq(lines, 1, first),
                               [i \in 1..first |-> IsContextLine(lines[i], heading_level)])
    IN  context \o SubSeq(lines, st.target_idx + 1, SectionEnd(st, lines))

\* '\n'.join(line for line in result_lines if line.strip())
JoinNonBlank(result_lines) ==
    Join(SelectLines(result_lines,
                     [i \in 1..Len(result_lines) |-> Strip(result_lines[i]) # <<>>]))

find_section_by_title(content, target_title, heading_level) ==
    LET available_titles == get_titles_at_level(content, heading_level)
        heading_mark == Hashes(heading_level)
        lines == Split(content)
        st == find_scan(content, target_title, heading_level)
    IN  IF heading_level < 1
        THEN [success |-> FALSE, error |-> "invalid_level",
              message |-> [text |-> "Heading level must be positive"],
              available_titles |-> available_titles]
        ELSE IF st.raised
        THEN [success |-> FALSE, error |-> "processing_error",
              message |-> [text |-> "'NoneType' object has no attribute 'group'"],
              available_titles |-> <<>>]
        ELSE IF st.target_idx = -1
        THEN [success |-> FALSE, error |-> "title_not_found",
              message |-> [text |-> "Title not found at level",
                           title |-> target_title, level |-> heading_level],
              available_titles |-> available_titles]
        ELSE [success |-> TRUE,
              content |-> JoinNonBlank(ResultLines(lines, heading_level, st)),
              title |-> heading_mark \o <<" ">> \o target_title,
              message |-> [text |-> "Found section", title |-> target_title],
              available_titles |-> available_titles]

---------------------------------------------------------------------------
(* navigate_sections(content, title_path, max_length)                      *)

\* "\n... (content truncated)"
Marker == <<"\n", ".", ".", ".", " ", "(", "c", "o", "n", "t", "e", "n", "t",
            " ", "t", "r", "u", "n", "c", "a", "t", "e", "d", ")">>

\* last_result = None
None == [is_none |-> TRUE]

\* No call has returned.
NoResult == [returned |-> FALSE]

\* max_length is not None and content_length > max_length
Exceeds(text, max_length) == max_length # <<>> /\ Len(text) > max_length[1]

\* The truncation of the two returns of the try block.
truncate(text, max_length) ==
    IF Exceeds(text, max_length)
    THEN SliceTo(text, max_length[1] - Len(Marker)) \o Marker
    ELSE text

\* The truncation of the except block.
truncate_except(text, max_length) ==
    IF Exceeds(text, max_length)
    THEN SliceTo(text, max_length[1]) \o Marker
    ELSE text

\* A padding that appends the 0 and forgets the -1 entries.
pad_status_no_extend(statuses, title_path) == Append(statuses, 0)

\* status_list.append(0); status_list.extend([-1] * (len(title_path) - len(status_list)))
pad_status(statuses, title_path) ==
    LET failed == Append(statuses, 0)
    IN  failed \o [i \in 1..(Len(title_path) - Len(failed)) |-> -1]

\* A failed return that reports the 0-based index of the failing element.
failed_return_zero_based(content, level, statuses, lookup, title_path, max_length) ==
    [success |-> FALSE,
     content |-> truncate(content, max_length),
     content_length |-> Len(content),
     current_level |-> level,
     failed_level |-> Len(statuses),
     message |-> [text |-> "Failed at level", level |-> level,
                  detail |-> lookup.message],
     status_list |-> pad_status(statuses, title_path),
     query_path |-> title_path,
     available_titles |-> lookup.available_titles,
     next_level_titles |-> <<>>]

\* A failed return that lists the titles one level too deep.
failed_return_deeper_titles(content, level, statuses, lookup, title_path, max_length) ==
    [success |-> FALSE,
     content |-> truncate(content, max_length),
     content_length |-> Len(content),
     current_level |-> level,
     failed_level |-> level,
     message |-> [text |-> "Failed at level", level |-> level,
                  detail |-> lookup.message],
     status_list |-> pad_status(statuses, title_path),
     query_path |-> title_path,
     available_titles |-> get_titles_at_level(content, level + 1),
     next_level_titles |-> <<>>]

\* The return of a failed lookup.
failed_return(content, level, statuses, lookup, title_path, max_length) ==
    [success |-> FALSE,
     content |-> truncate(content, max_length),
     content_length |-> Len(content),
     current_level |-> level,
     failed_level |-> level,
     message |-> [text |-> "Failed at level", level |-> level,
                  detail |-> lookup.message],
     status_list |-> pad_status(statuses, title_path),
     query_path |-> title_path,
     available_titles |-> lookup.available_titles,
     next_level_titles |-> <<>>]

\* A successful return that lists the siblings again as next_level_titles.
success_return_same_level(content, level, statuses, lookup, title_path, max_length) ==
    [success |-> TRUE,
     content |-> truncate(content, max_length),
     content_length |-> Len(content),
     current_level |-> level,
     message |-> [text |-> "Found", path |-> title_path],
     status_list |-> statuses,
     query_path |-> title_path,
     available_titles |-> lookup.available_titles,
     next_level_titles |-> get_titles_at_level(content, level)]

\* The return after the loop.
success_return(content, level, statuses, lookup, title_path, max_length) ==
    [success |-> TRUE,
     content |-> truncate(content, max_length),
     content_length |-> Len(content),
     current_level |-> level,
     message |-> [text |-> "Found", path |-> title_path],
     status_list |-> statuses,
     query_path |-> title_path,
     available_titles |-> lookup.available_titles,
     next_level_titles |-> get_titles_at_level(content, level + 1)]

\* An except block that leaves failed_level and available_titles out.
except_return_sparse(content, level, statuses, lookup, title_path, max_length) ==
    [success |-> FALSE,
     content |-> truncate_except(content, max_length),
     content_length |-> Len(content),
     current_level |-> level,
     message |-> [text |-> "Error at level", level |-> level,
                  detail |-> [text |-> "'NoneType' object is not subscriptable"]],
     status_list |-> IF Len(statuses) < Len(title_path)
                     THEN pad_status(statuses, title_path) ELSE statuses,
     query_path |-> title_path,
     next_level_titles |-> <<>>]

\* The return of the except block.
except_return(content, level, statuses, lookup, title_path, max_length) ==
    [success |-> FALSE,
     content |-> truncate_except(content, max_length),
     content_length |-> Len(content),
     current_level |-> level,
     failed_level |-> level,
     message |-> [text |-> "Error at level", level |-> level,
                  detail |-> [text |-> "'NoneType' object is not subscriptable"]],
     status_list |-> IF Len(statuses) < Len(title_path)
                     THEN pad_status(statuses, title_path) ELSE statuses,
     query_path |-> title_path,
     available_titles |-> IF lookup # None THEN lookup.available_titles ELSE <<>>,
     next_level_titles |-> <<>>]

\* A level that skips one depth at every step.
next_level_skip(level) == level + 2

\* A level that is incremented only after the lookup.
next_level_stale(level) == level

\* current_level += 1
next_level(level) == level + 1

RECURSIVE nav_loop(_, _, _, _, _, _, _)
\* The try block from its i-th iteration on (i counts from 0): the loop over
\* title_path, then the return after it or the except block.
nav_loop(content, level, statuses, last, i, title_path, max_length) ==
    IF i = Len(title_path)
    THEN IF last = None
         THEN except_return(content, level, statuses, last, title_path, max_length)
         ELSE success_return(content, level, statuses, last, title_path, max_length)
    ELSE LET title == title_path[i + 1]
             deeper == next_level(level)
             lookup == find_section_by_title(content, title, deeper)
         IN  IF ~lookup.success
             THEN failed_return(content, deeper, statuses, lookup,
                                title_path, max_length)
             ELSE nav_loop(lookup.content, deeper, Append(statuses, 1), lookup,
                           i + 1, title_path, max_length)

\* The whole function: the value a call returns.
navigate_sections(content, title_path, max_length) ==
    nav_loop(content, 0, <<>>, None, 0, title_path, max_length)

---------------------------------------------------------------------------
(* Inputs.                                                                 *)

Long == [i \in 1..LongLen |-> "x"]

\* A level-1 and a level-2 heading for each title, a text line, a blank line
\* and a line of one mark and one space (which the heading pattern rejects).
LinePool == {
    <<"#", " ", "A">>, <<"#", " ", "B">>,
    <<"#", "#", " ", "A">>, <<"#", "#", " ", "B">>,
    Long, <<>>,
    <<"#", " ">> }

Docs == {Join(ls) : ls \in UNION {[1..n -> LinePool] : n \in 0..MaxLines}}

Titles == {<<"A">>, <<"B">>}

Paths == UNION {[1..n -> Titles] : n \in 0..MaxPath}

MaxLengths == {<<>>, <<3>>, <<24>>, <<30>>}

Levels == 0..MaxLevelArg

---------------------------------------------------------------------------
(* The state machine: one call at a time, a lookup per step.               *)

Init ==
    /\ pc = "idle"
    /\ call = [op |-> "none"]
    /\ current_content = <<>>
    /\ current_level = 0
    /\ status_list = <<>>
    /\ last_result = None
    /\ idx = 0
    /\ lookups = <<>>
    /\ result = NoResult

\* An entry that keeps the status_list it finds, as a list shared by the calls
\* would be kept.
Navigate_shared_status(content, title_path, max_length) ==
    /\ pc = "idle"
    /\ call' = [op |-> "navigate_sections", content |-> content,
                title_path |-> title_path, max_length |-> max_length]
    /\ current_content' = content
    /\ current_level' = 0
    /\ last_result' = None
    /\ idx' = 0
    /\ lookups' = <<>>
    /\ result' = NoResult
    /\ pc' = "loop"
    /\ UNCHANGED status_list

\* Entry of navigate_sections: the four assignments before the try block.
Navigate(content, title_path, max_length) ==
    /\ pc = "idle"
    /\ call' = [op |-> "navigate_sections", content |-> content,
                title_path |-> title_path, max_length |-> max_length]
    /\ current_content' = content
    /\ current_level' = 0
    /\ status_list' = <<>>
    /\ last_result' = None
    /\ idx' = 0
    /\ lookups' = <<>>
    /\ result' = NoResult
    /\ pc' = "loop"

\* What a step adds to the history of lookups: the arguments and the result
\* of the call of find_section_by_title, and the target_idx its scan ended with.
LookupEntry(content, title, level, lookup) ==
    [content |-> content, title |-> title, level |-> level, result |-> lookup,
     target_idx |-> find_scan(content, title, level).target_idx]

\* One iteration of the loop whose lookup succeeds.
LoopResolved ==
    /\ pc = "loop"
    /\ idx < Len(call.title_path)
    /\ LET title == call.title_path[idx + 1]
           level == next_level(current_level)
           lookup == find_section_by_title(current_content, title, level)
       IN  /\ lookup.success
           /\ current_level' = level
           /\ last_result' = lookup
           /\ current_content' = lookup.content
           /\ status_list' = Append(status_list, 1)
           /\ lookups' = Append(lookups,
                                LookupEntry(current_content, title, level, lookup))
    /\ idx' = idx + 1
    /\ UNCHANGED <<pc, call, result>>

\* One iteration of the loop whose lookup fails: the call returns.
LoopFailed ==
    /\ pc = "loop"
    /\ idx < Len(call.title_path)
    /\ LET title == call.title_path[idx + 1]
           level == next_level(current_level)
           lookup == find_section_by_title(current_content, title, level)
       IN  /\ ~lookup.success
           /\ current_level' = level
           /\ last_result' = lookup
           /\ lookups' = Append(lookups,
                                LookupEntry(current_content, title, level, lookup))
           /\ result' = failed_return(current_content, level, status_list, lookup,
                                      call.title_path, call.max_length)
    /\ status_list' = pad_status(status_list, call.title_path)
    /\ current_content' = truncate(current_content, call.max_length)
    /\ idx' = idx + 1
    /\ pc' = "returned"
    /\ UNCHANGED call

\* After the loop, with a last lookup: the successful return.
Finish ==
    /\ pc = "loop"
    /\ idx = Len(call.title_path)
    /\ last_result # None
    /\ current_content' = truncate(current_content, call.max_length)
    /\ result' = success_return(current_content, current_level, status_list,
                                last_result, call.title_path, call.max_length)
    /\ pc' = "returned"
    /\ UNCHANGED <<call, current_level, status_list, last_result, idx, lookups>>

\* After the loop, with last_result still None: last_result["available_titles"]
\* raises TypeError and the except block returns.
Except ==
    /\ pc = "loop"
    /\ idx = Len(call.title_path)
    /\ last_result = None
    /\ current_content' = truncate_except(current_content, call.max_length)
    /\ status_list' = IF Len(status_list) < Len(call.title_path)
                      THEN pad_status(status_list, call.title_path) ELSE status_list
    /\ result' = except_return(current_content, current_level, status_list,
                               last_result, call.title_path, call.max_length)
    /\ pc' = "returned"
    /\ UNCHANGED <<call, current_level, last_result, idx, lookups>>

\* A direct call of find_section_by_title.
FindSection(content, target_title, heading_level) ==
    /\ pc = "idle"
    /\ call' = [op |-> "find_section_by_title", content |-> content,
                target_title |-> target_title, heading_level |-> heading_level,
                scan |-> find_scan(content, target_title, heading_level)]
    /\ result' = find_section_by_title(content, target_title, heading_level)
    /\ pc' = "returned"
    /\ UNCHANGED <<current_content, current_level, status_list, last_result,
                   idx, lookups>>

\* A direct call of get_titles_at_level.
GetTitles(content, heading_level) ==
    /\ pc = "idle"
    /\ call' = [op |-> "get_titles_at_level", content |-> content,
                heading_level |-> heading_level]
    /\ result' = [titles |-> get_titles_at_level(content, heading_level)]
    /\ pc' = "returned"
    /\ UNCHANGED <<current_content, current_level, status_list, last_result,
                   idx, lookups>>

\* The caller takes the result; nothing of the call is kept.
Return ==
    /\ pc = "returned"
    /\ pc' = "idle"
    /\ call' = [op |-> "none"]
    /\ current_content' = <<>>
    /\ current_level' = 0
    /\ status_list' = <<>>
    /\ last_result' = None
    /\ idx' = 0
    /\ lookups' = <<>>
    /\ result' = NoResult

\* The calls a client can make while no call is running.
NavigateCall ==
    /\ pc = "idle"
    /\ \E content \in Docs, title_path \in Paths, max_length \in MaxLengths :
           Navigate(content, title_path, max_length)

FindSectionCall ==
    /\ pc = "idle"
    /\ \E content \in Docs, target_title \in Titles, heading_level \in Levels :
           FindSection(content, target_title, heading_level)

GetTitlesCall ==
    /\ pc = "idle"
    /\ \E content \in Docs, heading_level \in Levels :
           GetTitles(content, heading_level)

Next ==
    \/ NavigateCall
    \/ LoopResolved
    \/ LoopFailed
    \/ Finish
    \/ Except
    \/ FindSectionCall
    \/ GetTitlesCall
    \/ Return

Spec == Init /\ [][Next]_vars

---------------------------------------------------------------------------
(* Vocabulary of the properties.                                           *)

NavReturned == pc = "returned" /\ call.op = "navigate_sections"

FindReturned == pc = "returned" /\ call.op = "find_section_by_title"

\* The number of '#' characters a line starts with.
LeadingHashes(line) ==
    SetMax({n \in 0..Len(line) : \A k \in 1..n : line[k] = "#"})

\* A heading line of exactly `level` marks whose trimmed text is `title`.
IsHeadingOf(line, level, title) ==
    /\ LeadingHashes(line) = level
    /\ Len(line) >= level + 2
    /\ IsWs(line[level + 1])
    /\ Strip(SubSeq(line, level + 1, Len(line))) = title

\* A heading line of some level below `level`.
IsShallowerHeading(line, level) ==
    /\ LeadingHashes(line) \in 1..(level - 1)
    /\ Len(line) >= LeadingHashes(line) + 2
    /\ IsWs(line[LeadingHashes(line) + 1])

\* The scope a navigation ended in, before any truncation: the content of the
\* last resolved lookup, or the document when none resolved.
ResolvedScope ==
    LET done == {i \in 1..Len(lookups) : lookups[i].result.success}
    IN  IF done = {} THEN call.content ELSE lookups[SetMax(done)].result.content

\* The scope the i-th lookup has to search.
ScopeBefore(i) == IF i = 1 THEN call.content ELSE lookups[i - 1].result.content

\* status_list is k-1 ones, one 0, then -1 to the end.
SingleZero(sl) ==
    \E k \in 1..Len(sl) :
        /\ sl[k] = 0
        /\ \A j \in 1..(k - 1) : sl[j] = 1
        /\ \A j \in (k + 1)..Len(sl) : sl[j] = -1

---------------------------------------------------------------------------
(* Properties.                                                             *)

\* C1: every navigate_sections call that returns success = false has a
\* status_list with exactly one 0, only 1 before it and only -1 after it.
C1_FailureHasSingleZero ==
    (NavReturned /\ ~result.success) => SingleZero(result.status_list)

\* C2: on every return path of navigate_sections, status_list is as long as
\* query_path and each of its entries is 1, 0 or -1.
C2_StatusListShape ==
    NavReturned =>
        /\ Len(result.status_list) = Len(result.query_path)
        /\ \A i \in 1..Len(result.status_list) : result.status_list[i] \in {1, 0, -1}

C2_Witness ==
    /\ NavReturned
    /\ ~result.success
    /\ Len(result.status_list) = 2
    /\ result.status_list[2] = -1

\* C3: success = true only when every title of the path resolved in order;
\* then every status entry is 1, current_level is the path length and there
\* is no failed_level; a failure carries failed_level = current_level.
C3_SuccessMeansAllResolved ==
    NavReturned =>
        /\ result.success =>
              /\ Len(lookups) = Len(call.title_path)
              /\ \A i \in 1..Len(lookups) :
                     /\ lookups[i].result.success
                     /\ lookups[i].title = call.title_path[i]
              /\ Len(result.status_list) = Len(call.title_path)
              /\ \A i \in 1..Len(result.status_list) : result.status_list[i] = 1
              /\ result.current_level = Len(call.title_path)
              /\ "failed_level" \notin DOMAIN result
        /\ ~result.success =>
              /\ "failed_level" \in DOMAIN result
              /\ result.failed_level = result.current_level

C3_Witness ==
    /\ NavReturned
    /\ result.success
    /\ Len(call.title_path) = 2
    /\ result.content # call.content

\* C4: when max_length is given and content_length > max_length, the returned
\* content is at most max_length long and ends with the truncation marker,
\* for every integer max_length and on every return path.
C4_TruncatedFitsBudget ==
    (NavReturned /\ call.max_length # <<>>
        /\ result.content_length > call.max_length[1]) =>
        /\ Len(result.content) <= call.max_length[1]
        /\ EndsWith(result.content, Marker)

\* C5: content_length is the length of the scoped content before truncation,
\* the returned content is never longer than content_length, and it is the
\* whole scoped content when max_length is absent or not exceeded.
C5_ContentWithinLength ==
    NavReturned =>
        /\ result.content_length = Len(ResolvedScope)
        /\ Len(result.content) <= result.content_length
        /\ (call.max_length = <<>> \/ result.content_length <= call.max_length[1])
              => result.content = ResolvedScope

\* C6: when the lookup of the i-th path element fails, failed_level =
\* current_level = i, next_level_titles is empty, available_titles is the list
\* the failed lookup reported (for title_not_found: all level-i titles of the
\* searched scope), and the content is, before truncation, the scope resolved
\* by step i-1 (the whole document when i = 1).
C6_FailedLookupReport ==
    (NavReturned /\ lookups # <<>> /\ ~lookups[Len(lookups)].result.success) =>
        LET i == Len(lookups)
            failed == lookups[i]
            scope == ScopeBefore(i)
        IN  /\ result.failed_level = i
            /\ result.current_level = i
            /\ result.next_level_titles = <<>>
            /\ result.available_titles = failed.result.available_titles
            /\ failed.result.error = "title_not_found" =>
                   result.available_titles = get_titles_at_level(scope, i)
            /\ failed.content = scope
            /\ result.content_length = Len(scope)
            /\ ~Exceeds(scope, call.max_length) => result.content = scope
            /\ Exceeds(scope, call.max_length) =>
                   result.content =
                       SliceTo(scope, call.max_length[1] - Len(Marker)) \o Marker

C6_Witness ==
    /\ NavReturned
    /\ Len(lookups) = 2
    /\ ~lookups[2].result.success
    /\ lookups[2].result.error = "title_not_found"
    /\ result.available_titles # <<>>
    /\ result.content # call.content
    /\ result.content = lookups[1].result.content

\* C7: on a successful navigation over a path of length n, available_titles is
\* the level-n titles of the scope the last title was looked up in, and
\* next_level_titles is get_titles_at_level of the final content at level n+1.
C7_SuccessTitles ==
    (NavReturned /\ result.success) =>
        LET n == Len(call.title_path)
        IN  /\ n = Len(lookups)
            /\ result.available_titles = get_titles_at_level(ScopeBefore(n), n)
            /\ result.next_level_titles =
                   get_titles_at_level(lookups[n].result.content, n + 1)

C7_Witness ==
    /\ NavReturned
    /\ result.success
    /\ Len(result.available_titles) >= 2
    /\ result.next_level_titles # <<>>

\* C8: the i-th title of the path is looked up at level i, never below 1, in
\* the content produced by step i-1 (the document for i = 1), and the heading
\* that resolves it has exactly i marks and that title.
C8_LevelsFollowDepth ==
    (call.op = "navigate_sections") =>
        \A i \in 1..Len(lookups) :
            LET lines == Split(lookups[i].content)
                hits == {k \in 1..Len(lines) :
                            IsHeadingOf(lines[k], i, call.title_path[i])}
            IN  /\ lookups[i].level = i
                /\ lookups[i].level >= 1
                /\ lookups[i].title = call.title_path[i]
                /\ lookups[i].content = ScopeBefore(i)
                /\ lookups[i].result.success => (lookups[i].target_idx + 1) \in hits
                /\ hits = {} => ~lookups[i].result.success

C8_Witness ==
    /\ call.op = "navigate_sections"
    /\ Len(lookups) = 2
    /\ lookups[2].result.success
    /\ LET lines == Split(call.content)
       IN  \E k \in 1..Len(lines) : IsHeadingOf(lines[k], 1, call.title_path[2])

\* C9: when several headings of the looked-up level carry the target title,
\* find_section_by_title selects the first of them in document order.
C9_FirstMatchSelected ==
    (FindReturned /\ result.success) =>
        LET lines == Split(call.content)
            hits == {k \in 1..Len(lines) :
                        IsHeadingOf(lines[k], call.heading_level, call.target_title)}
        IN  call.scan.target_idx + 1 = SetMin(hits)

\* C10: the window find_section_by_title returns for a heading of level L
\* ends before the next heading of level <= L: it contains no later heading
\* of a shallower level.
C10_WindowStopsAtShallower ==
    (FindReturned /\ result.success) =>
        LET lines == Split(call.content)
        IN  \A k \in (call.scan.target_idx + 2)..SectionEnd(call.scan, lines) :
                ~IsShallowerHeading(lines[k], call.heading_level)

---------------------------------------------------------------------------
(* Direct calls of the two lookup functions on documents with irregular    *)
(* lines, for every level from -1 up.                                      *)

\* Headings written with one space, with padding, with a tab, with blank
\* text, with no text, without whitespace; a deeper heading; an indented line.
RichPool == {
    <<"#", " ", "A">>, <<"#", " ", "B">>,
    <<"#", " ", " ", "A", " ">>,
    <<"#", "\t", "A">>,
    <<"#", " ", " ">>,
    <<"#", " ">>,
    <<"#", "A">>,
    <<"#", "#", " ", "A">>,
    <<" ", "A">> }

RichDocs == {Join(ls) : ls \in UNION {[1..n -> RichPool] : n \in 0..MaxRichLines}}

RichTitles == {<<"A">>, <<"B">>, <<>>}

RichLevels == (-1)..MaxLevelArg

LookupFindCall ==
    /\ pc = "idle"
    /\ \E content \in RichDocs, target_title \in RichTitles, heading_level \in RichLevels :
           FindSection(content, target_title, heading_level)

LookupTitlesCall ==
    /\ pc = "idle"
    /\ \E content \in RichDocs, heading_level \in RichLevels :
           GetTitles(content, heading_level)

LookupNext ==
    \/ LookupFindCall
    \/ LookupTitlesCall
    \/ Return

SpecLookup == Init /\ [][LookupNext]_vars

TitlesReturned == pc = "returned" /\ call.op = "get_titles_at_level"

\* A line of exactly `level` marks, then whitespace, then text that is not blank.
IsTitledHeading(line, level) ==
    /\ LeadingHashes(line) = level
    /\ Len(line) >= level + 2
    /\ IsWs(line[level + 1])
    /\ Strip(SubSeq(line, level + 1, Len(line))) # <<>>

RECURSIVE TrimmedTitles(_, _)
\* The trimmed texts of the titled headings of a level, in document order.
TrimmedTitles(lines, level) ==
    IF lines = <<>> THEN <<>>
    ELSE IF IsTitledHeading(lines[1], level)
    THEN <<Strip(SubSeq(lines[1], level + 1, Len(lines[1])))>>
             \o TrimmedTitles(Tail(lines), level)
    ELSE TrimmedTitles(Tail(lines), level)

\* C11: for every level L >= 1, get_titles_at_level returns, in document order
\* and with duplicates, exactly the trimmed titles of the lines of exactly L
\* marks, whitespace and non-empty text; every returned title is non-empty.
C11_TitlesAreTitledHeadings ==
    (TitlesReturned /\ call.heading_level >= 1) =>
        /\ result.titles = TrimmedTitles(Split(call.content), call.heading_level)
        /\ \A i \in 1..Len(result.titles) : result.titles[i] # <<>>

\* C12: for a level below 1, get_titles_at_level returns an empty list and
\* find_section_by_title fails with invalid_level and empty available_titles.
C12_InvalidLevelIsEmpty ==
    /\ (TitlesReturned /\ call.heading_level < 1) => result.titles = <<>>
    /\ (FindReturned /\ call.heading_level < 1) =>
           /\ ~result.success
           /\ result.error = "invalid_level"
           /\ result.available_titles = <<>>

\* C13: for a level >= 1, when no heading of that level has the target title,
\* find_section_by_title fails with title_not_found and available_titles =
\* get_titles_at_level(content, level), whatever else the document holds.
C13_AbsentTitleNotFound ==
    (FindReturned /\ call.heading_level >= 1
        /\ LET lines == Split(call.content)
           IN  ~ \E k \in 1..Len(lines) :
                   IsHeadingOf(lines[k], call.heading_level, call.target_title)) =>
        /\ ~result.success
        /\ result.error = "title_not_found"
        /\ result.available_titles =
               get_titles_at_level(call.content, call.heading_level)

---------------------------------------------------------------------------
(* Failure records.                                                        *)

\* The keys of a navigate_sections failure record.
NavFailureKeys ==
    {"success", "content", "content_length", "current_level", "failed_level",
     "message", "status_list", "query_path", "available_titles",
     "next_level_titles"}

\* The keys of a find_section_by_title failure record.
FindFailureKeys == {"success", "error", "message", "available_titles"}

\* C14: navigate_sections and find_section_by_title return a record on every
\* path, the paths through their except blocks included; a record that is not a
\* success has success = false, and a navigate_sections failure record carries
\* all of content, content_length, current_level, failed_level, message,
\* status_list, query_path, available_titles and next_level_titles.
C14_FailuresAreRecords ==
    /\ FindReturned =>
           /\ "success" \in DOMAIN result
           /\ result.success \in BOOLEAN
           /\ ~result.success =>
                  /\ FindFailureKeys \subseteq DOMAIN result
                  /\ result.error \in {"invalid_level", "title_not_found",
                                       "processing_error"}
           /\ call.heading_level >= 1 /\ call.scan.raised =>
                  ~result.success /\ result.error = "processing_error"
    /\ NavReturned =>
           /\ "success" \in DOMAIN result
           /\ result.success \in BOOLEAN
           /\ ~result.success => NavFailureKeys \subseteq DOMAIN result
           /\ last_result = None => ~result.success
           /\ (lookups # <<>> /\ ~lookups[Len(lookups)].result.success)
                  => ~result.success

\* The except block of navigate_sections has returned.
C14_Witness ==
    /\ NavReturned
    /\ last_result = None
    /\ ~result.success
    /\ result.content # <<>>

---------------------------------------------------------------------------
(* Calls in sequence, where a call finds whatever the calls before it left *)
(* in the locals.                                                          *)

H1A == <<"#", " ", "A">>
H1B == <<"#", " ", "B">>
H2A == <<"#", "#", " ", "A">>
H2B == <<"#", "#", " ", "B">>

\* A section with two subsections; a title that is both section and
\* subsection; a repeated section; a subsection standing before its section.
SeqDocs == {
    Join(<<H1A, H2B, H2A>>),
    Join(<<H1A, H2A, H2B>>),
    Join(<<H1A, H1A, H2B>>),
    Join(<<H2A, H1A, H2B>>) }

SeqMaxLengths == {<<>>, <<3>>}

SeqNavigateCall ==
    /\ pc = "idle"
    /\ \E content \in SeqDocs, title_path \in Paths, max_length \in SeqMaxLengths :
           Navigate(content, title_path, max_length)

SeqFindCall ==
    /\ pc = "idle"
    /\ \E content \in SeqDocs, target_title \in Titles, heading_level \in 1..MaxPath :
           FindSection(content, target_title, heading_level)

\* The call is over; the values of its locals stay where they were.
ReturnStale ==
    /\ pc = "returned"
    /\ pc' = "idle"
    /\ UNCHANGED <<call, current_content, current_level, status_list,
                   last_result, idx, lookups, result>>

SeqNext ==
    \/ SeqNavigateCall
    \/ SeqFindCall
    \/ LoopResolved
    \/ LoopFailed
    \/ Finish
    \/ Except
    \/ ReturnStale

SpecSeq == Init /\ [][SeqNext]_vars

\* C15: navigate_sections is a pure function of its arguments: whatever calls
\* came before, a call returns the value determined by its document,
\* title_path and max_length alone, the arguments are what they were when the
\* call began, and query_path is the title_path that was passed in.
C15_ResultIsFunctionOfArguments ==
    NavReturned =>
        /\ result = navigate_sections(call.content, call.title_path, call.max_length)
        /\ result.query_path = call.title_path
        /\ lookups # <<>> => lookups[1].content = call.content

\* A call has returned after resolving two titles.
C15_Witness ==
    /\ NavReturned
    /\ result.success
    /\ Len(call.title_path) = 2

---------------------------------------------------------------------------
(* Navigating in the content of an earlier navigation.                     *)

\* A navigation over two titles has succeeded.
TwoResolved == NavReturned /\ result.success /\ Len(call.title_path) = 2

\* The content of navigate_sections(doc, [t1]) for the running call's document
\* and first title, taken without a length limit.
FirstScope == navigate_sections(call.content, <<call.title_path[1]>>, <<>>).content

\* C16 as stated: for a document, a title t1 and a child title t2 of t1,
\* navigate_sections(content of navigate_sections(doc, [t1]), [t2]) has the
\* content of navigate_sections(doc, [t1, t2]).
C16_RoundTripRelativePath ==
    TwoResolved =>
        navigate_sections(FirstScope, <<call.title_path[2]>>, call.max_length).content
            = result.content

\* C16: for a document, a title t1 and a child title t2 of t1, navigating the
\* content of navigate_sections(doc, [t1]) as a fresh document with the full
\* path [t1, t2] returns what navigate_sections(doc, [t1, t2]) returns; the
\* path cannot be shortened, because its i-th title is always looked up
\* among the headings of i marks.
C16_RoundTripFullPath ==
    TwoResolved =>
        navigate_sections(FirstScope, call.title_path, call.max_length) = result

\* The second title narrowed the content of the first.
C16_Witness ==
    /\ TwoResolved
    /\ FirstScope # result.content
    /\ call.max_length = <<>>

---------------------------------------------------------------------------
(* Ancestor headings and the empty path.                                   *)

\* C17: after a successful navigation over t1..tn, the resolved content, before
\* any truncation, has for each i <= n a line of exactly i marks and title ti.
C17_AncestorsStayVisible ==
    (NavReturned /\ result.success) =>
        LET lines == Split(ResolvedScope)
        IN  \A i \in 1..Len(call.title_path) :
                \E k \in 1..Len(lines) : IsHeadingOf(lines[k], i, call.title_path[i])

\* C19: navigate_sections with an empty title_path returns success = true,
\* current_level = 0, an empty status_list and the whole document as content.
C19_EmptyPathSucceeds ==
    (NavReturned /\ call.title_path = <<>>) =>
        /\ result.success
        /\ result.current_level = 0
        /\ result.status_list = <<>>
        /\ result.content = call.content

---------------------------------------------------------------------------
(* Calls of navigate_sections running at once. Every variable holds one    *)
(* value per call; a step of one call is one iteration of its loop.        *)

Calls == 1..MaxCalls

\* One frame for all the calls, as module-level variables would be.
slot_shared(c) == 1

\* The frame that holds the locals of call c: its own.
slot(c) == c

ConcDocs == { Join(<<H1A, H2B, H2A>>), Join(<<H2A, H1A, H1B>>) }

ConcPaths == UNION {[1..n -> Titles] : n \in 0..ConcPath}

ConcInit ==
    /\ pc = [c \in Calls |-> "idle"]
    /\ call = [c \in Calls |-> [op |-> "none"]]
    /\ current_content = [c \in Calls |-> <<>>]
    /\ current_level = [c \in Calls |-> 0]
    /\ status_list = [c \in Calls |-> <<>>]
    /\ last_result = [c \in Calls |-> None]
    /\ idx = [c \in Calls |-> 0]
    /\ lookups = [c \in Calls |-> <<>>]
    /\ result = [c \in Calls |-> NoResult]

\* Entry of call c: the four assignments before the try block.
ConcNavigate(c, content, title_path, max_length) ==
    /\ pc[c] = "idle"
    /\ pc' = [pc EXCEPT ![c] = "loop"]
    /\ call' = [call EXCEPT ![c] =
                    [op |-> "navigate_sections", content |-> content,
                     title_path |-> title_path, max_length |-> max_length]]
    /\ current_content' = [current_content EXCEPT ![slot(c)] = content]
    /\ current_level' = [current_level EXCEPT ![slot(c)] = 0]
    /\ status_list' = [status_list EXCEPT ![slot(c)] = <<>>]
    /\ last_result' = [last_result EXCEPT ![slot(c)] = None]
    /\ idx' = [idx EXCEPT ![slot(c)] = 0]
    /\ lookups' = [lookups EXCEPT ![c] = <<>>]
    /\ result' = [result EXCEPT ![c] = NoResult]

\* One iteration of the loop of call c whose lookup succeeds.
ConcLoopResolved(c) ==
    /\ pc[c] = "loop"
    /\ idx[slot(c)] < Len(call[c].title_path)
    /\ LET title == call[c].title_path[idx[slot(c)] + 1]
           level == next_level(current_level[slot(c)])
           scope == current_content[slot(c)]
           lookup == find_section_by_title(scope, title, level)
       IN  /\ lookup.success
           /\ current_level' = [current_level EXCEPT ![slot(c)] = level]
           /\ last_result' = [last_result EXCEPT ![slot(c)] = lookup]
           /\ current_content' = [current_content EXCEPT ![slot(c)] = lookup.content]
           /\ status_list' = [status_list EXCEPT ![slot(c)] = Append(@, 1)]
           /\ lookups' = [lookups EXCEPT ![c] =
                              Append(@, LookupEntry(scope, title, level, lookup))]
    /\ idx' = [idx EXCEPT ![slot(c)] = @ + 1]
    /\ UNCHANGED <<pc, call, result>>

\* One iteration of the loop of call c whose lookup fails: the call returns.
ConcLoopFailed(c) ==
    /\ pc[c] = "loop"
    /\ idx[slot(c)] < Len(call[c].title_path)
    /\ LET title == call[c].title_path[idx[slot(c)] + 1]
           level == next_level(current_level[slot(c)])
           scope == current_content[slot(c)]
           lookup == find_section_by_title(scope, title, level)
       IN  /\ ~lookup.success
           /\ current_level' = [current_level EXCEPT ![slot(c)] = level]
           /\ last_result' = [last_result EXCEPT ![slot(c)] = lookup]
           /\ lookups' = [lookups EXCEPT ![c] =
                              Append(@, LookupEntry(scope, title, level, lookup))]
           /\ result' = [result EXCEPT ![c] =
                             failed_return(scope, level, status_list[slot(c)], lookup,
                                           call[c].title_path, call[c].max_length)]
           /\ current_content' = [current_content EXCEPT ![slot(c)] =
                                      truncate(scope, call[c].max_length)]
    /\ status_list' = [status_list EXCEPT ![slot(c)] =
                           pad_status(@, call[c].title_path)]
    /\ idx' = [idx EXCEPT ![slot(c)] = @ + 1]
    /\ pc' = [pc EXCEPT ![c] = "returned"]
    /\ UNCHANGED call

\* Call c after its loop, with a last lookup: the successful return.
ConcFinish(c) ==
    /\ pc[c] = "loop"
    /\ idx[slot(c)] = Len(call[c].title_path)
    /\ last_result[slot(c)] # None
    /\ current_content' = [current_content EXCEPT ![slot(c)] =
                               truncate(@, call[c].max_length)]
    /\ result' = [result EXCEPT ![c] =
                      success_return(current_content[slot(c)], current_level[slot(c)],
                                     status_list[slot(c)], last_result[slot(c)],
                                     call[c].title_path, call[c].max_length)]
    /\ pc' = [pc EXCEPT ![c] = "returned"]
    /\ UNCHANGED <<call, current_level, status_list, last_result, idx, lookups>>

\* Call c after its loop, with last_result still None: the except block returns.
ConcExcept(c) ==
    /\ pc[c] = "loop"
    /\ idx[slot(c)] = Len(call[c].title_path)
    /\ last_result[slot(c)] = None
    /\ current_content' = [current_content EXCEPT ![slot(c)] =
                               truncate_except(@, call[c].max_length)]
    /\ status_list' = [status_list EXCEPT ![slot(c)] =
                           IF Len(@) < Len(call[c].title_path)
                           THEN pad_status(@, call[c].title_path) ELSE @]
    /\ result' = [result EXCEPT ![c] =
                      except_return(current_content[slot(c)], current_level[slot(c)],
                                    status_list[slot(c)], last_result[slot(c)],
                                    call[c].title_path, call[c].max_length)]
    /\ pc' = [pc EXCEPT ![c] = "returned"]
    /\ UNCHANGED <<call, current_level, last_result, idx, lookups>>

\* The caller of call c takes the result; the frame is gone.
ConcReturn(c) ==
    /\ pc[c] = "returned"
    /\ pc' = [pc EXCEPT ![c] = "idle"]
    /\ call' = [call EXCEPT ![c] = [op |-> "none"]]
    /\ current_content' = [current_content EXCEPT ![slot(c)] = <<>>]
    /\ current_level' = [current_level EXCEPT ![slot(c)] = 0]
    /\ status_list' = [status_list EXCEPT ![slot(c)] = <<>>]
    /\ last_result' = [last_result EXCEPT ![slot(c)] = None]
    /\ idx' = [idx EXCEPT ![slot(c)] = 0]
    /\ lookups' = [lookups EXCEPT ![c] = <<>>]
    /\ result' = [result EXCEPT ![c] = NoResult]

ConcNavigateCall ==
    \E c \in Calls :
        /\ pc[c] = "idle"
        /\ \E content \in ConcDocs, title_path \in ConcPaths :
               ConcNavigate(c, content, title_path, <<>>)

ConcNext ==
    \/ ConcNavigateCall
    \/ \E c \in Calls : ConcLoopResolved(c)
    \/ \E c \in Calls : ConcLoopFailed(c)
    \/ \E c \in Calls : ConcFinish(c)
    \/ \E c \in Calls : ConcExcept(c)
    \/ \E c \in Calls : ConcReturn(c)

SpecConc == ConcInit /\ [][ConcNext]_vars

\* C18: under every interleaving of the steps of the calls, each call returns
\* what it returns when it runs alone: the value navigate_sections gives for
\* its own arguments.
C18_CallsDoNotInterfere ==
    \A c \in Calls :
        pc[c] = "returned" =>
            result[c] = navigate_sections(call[c].content, call[c].title_path,
                                          call[c].max_length)

\* A call has returned a section while another call, on another document, is
\* between two steps of its loop.
C18_Witness ==
    \E c, d \in Calls :
        /\ c # d
        /\ pc[c] = "returned"
        /\ result[c].success
        /\ pc[d] = "loop"
        /\ idx[d] = 1
        /\ call[d].content # call[c].content

---------------------------------------------------------------------------
(* get_api_doc_section(titles, max_length) of the server: read the         *)
(* documentation file, navigate in it, build the response. Here            *)
(* current_content holds doc_content, last_result holds nav_result, lookups *)
(* records the invocations of navigate_sections and result is the dict the *)
(* tool serialises.                                                        *)

\* The texts the documentation file can hold.
DocFiles == SeqDocs \cup {Long, <<>>}

\* The dict of the read-error branch.
read_error_response(titles, max_length) ==
    [metadata |-> [text |-> "read error", query_path |-> titles,
                   current_level |-> 0],
     truncation |-> [original_length |-> 0, max_length |-> max_length,
                     is_truncated |-> FALSE],
     content |-> <<>>]

\* status_desc: one entry per pair of zip(query_path, status_list).
status_desc(nav_result) ==
    LET n == SetMin({Len(nav_result.query_path), Len(nav_result.status_list)})
    IN  [i \in 1..n |->
            [path |-> nav_result.query_path[i],
             status |-> IF nav_result.status_list[i] = 1 THEN "found"
                        ELSE IF nav_result.status_list[i] = 0 THEN "title not found"
                        ELSE "lookup failed"]]

\* The dict built from nav_result.
nav_response(nav_result, max_length) ==
    [metadata |-> [success |-> nav_result.success,
                   current_level |-> nav_result.current_level,
                   status_desc |-> status_desc(nav_result),
                   available_titles |-> nav_result.available_titles,
                   next_level_titles |-> nav_result.next_level_titles],
     truncation |-> [original_length |-> nav_result.content_length,
                     max_length |-> max_length,
                     is_truncated |->
                         Len(nav_result.content) < nav_result.content_length],
     content |-> nav_result.content]

\* The tool is called.
GetApiDocSection(titles, max_length) ==
    /\ pc = "idle"
    /\ call' = [op |-> "get_api_doc_section", titles |-> titles,
                max_length |-> max_length, read |-> "pending"]
    /\ pc' = "read"
    /\ UNCHANGED <<current_content, current_level, status_list, last_result,
                   idx, lookups, result>>

\* A read failure that is passed on to the navigator as an empty document.
ReadFailed_falls_through ==
    /\ pc = "read"
    /\ call' = [call EXCEPT !.read = "failed"]
    /\ current_content' = <<>>
    /\ pc' = "navigate"
    /\ UNCHANGED <<current_level, status_list, last_result, idx, lookups, result>>

\* open or read raises: the except branch returns the read-error response.
ReadFailed ==
    /\ pc = "read"
    /\ call' = [call EXCEPT !.read = "failed"]
    /\ result' = read_error_response(call.titles, call.max_length)
    /\ pc' = "returned"
    /\ UNCHANGED <<current_content, current_level, status_list, last_result,
                   idx, lookups>>

\* doc_content = f.read()
ReadOk(doc_content) ==
    /\ pc = "read"
    /\ call' = [call EXCEPT !.read = "ok"]
    /\ current_content' = doc_content
    /\ pc' = "navigate"
    /\ UNCHANGED <<current_level, status_list, last_result, idx, lookups, result>>

ReadOkFile == \E doc_content \in DocFiles : ReadOk(doc_content)

\* nav_result = navigate_sections(doc_content, titles, max_length=max_length)
CallNavigate ==
    /\ pc = "navigate"
    /\ last_result' = navigate_sections(current_content, call.titles, call.max_length)
    /\ lookups' = Append(lookups, [content |-> current_content,
                                   title_path |-> call.titles,
                                   max_length |-> call.max_length])
    /\ pc' = "respond"
    /\ UNCHANGED <<call, current_content, current_level, status_list, idx, result>>

\* The status descriptions, the metadata, the truncation record, the return.
BuildResponse ==
    /\ pc = "respond"
    /\ result' = nav_response(last_result, call.max_length)
    /\ pc' = "returned"
    /\ UNCHANGED <<call, current_content, current_level, status_list,
                   last_result, idx, lookups>>

GetApiDocSectionCall ==
    /\ pc = "idle"
    /\ \E titles \in Paths, max_length \in MaxLengths \ {<<>>} :
           GetApiDocSection(titles, max_length)

DocNext ==
    \/ GetApiDocSectionCall
    \/ ReadFailed
    \/ ReadOkFile
    \/ CallNavigate
    \/ BuildResponse
    \/ Return

SpecDoc == Init /\ [][DocNext]_vars

DocRunning == call.op = "get_api_doc_section"

DocReturned == pc = "returned" /\ DocRunning

\* C20: when reading the documentation file fails, get_api_doc_section returns
\* its read-error response (content "", original_length 0, is_truncated false)
\* and navigate_sections is never invoked; when the read succeeds,
\* navigate_sections is invoked exactly once, with the whole file text, the
\* given titles and max_length.
C20_ReadErrorIsOwnBranch ==
    /\ (DocRunning /\ call.read = "failed") =>
           /\ lookups = <<>>
           /\ pc = "returned"
           /\ result.content = <<>>
           /\ result.truncation.original_length = 0
           /\ result.truncation.is_truncated = FALSE
    /\ (DocRunning /\ call.read = "pending") => lookups = <<>>
    /\ (DocReturned /\ call.read = "ok") =>
           lookups = << [content |-> current_content, title_path |-> call.titles,
                        max_length |-> call.max_length] >>
    /\ DocRunning => Len(lookups) <= 1

\* A call for a non-empty path has returned after a failed read.
C20_Witness ==
    /\ DocReturned
    /\ call.read = "failed"
    /\ call.titles # <<>>
    /\ result.truncation.max_length = <<30>>

---------------------------------------------------------------------------
(* Enumeration against lookup.                                             *)

\* The entries of a list.
Entries(list) == {list[i] : i \in 1..Len(list)}

\* C22: for a level >= 1, find_section_by_title(content, t, level) succeeds
\* exactly when t is in get_titles_at_level(content, level); so every entry of
\* the available_titles of a failed first step resolves that step, and every
\* entry of the next_level_titles of a successful path extends it to a path
\* that succeeds.
C22_ListedIffFound ==
    (FindReturned /\ call.heading_level >= 1) =>
        /\ result.success <=>
               call.target_title \in
                   Entries(get_titles_at_level(call.content, call.heading_level))
        /\ call.heading_level = 1 =>
               LET nav == navigate_sections(call.content, <<call.target_title>>, <<>>)
               IN  /\ ~nav.success =>
                          \A t \in Entries(nav.available_titles) :
                              navigate_sections(call.content, <<t>>, <<>>).success
                   /\ nav.success =>
                          \A t \in Entries(nav.next_level_titles) :
                              navigate_sections(call.content,
                                                <<call.target_title, t>>, <<>>).success

---------------------------------------------------------------------------
(* The content of a successful lookup.                                     *)

\* A heading line of exactly `level` marks, whatever its title.
IsLevelHeading(line, level) ==
    /\ LeadingHashes(line) = level
    /\ Len(line) >= level + 2
    /\ IsWs(line[level + 1])

\* The lines of a list that are not blank, in order.
NonBlank(lines) == SelectSeq(lines, LAMBDA line : Strip(line) # <<>>)

\* C23: on success the content of find_section_by_title is, in document order,
\* every non-blank line before the first heading of the looked-up level, then
\* the non-blank lines from the target heading up to, but excluding, the next
\* heading of that level or the end of the document; lines between the first
\* sibling and the target are left out; the title is level marks, a space
\* and target_title.
C23_ContentIsPreambleAndWindow ==
    (FindReturned /\ result.success) =>
        LET lines == Split(call.content)
            level == call.heading_level
            siblings == {k \in 1..Len(lines) : IsLevelHeading(lines[k], level)}
            first == SetMin(siblings)
            target == call.scan.target_idx + 1
            stop == SetMin({k \in siblings : k > target} \cup {Len(lines) + 1})
        IN  /\ target \in siblings
            /\ result.content =
                   Join(NonBlank(SubSeq(lines, 1, first - 1)
                                 \o SubSeq(lines, target, stop - 1)))
            /\ result.title = Hashes(level) \o <<" ">> \o call.target_title

---------------------------------------------------------------------------
(* The truncation rule on the three return paths.                          *)

\* The first n characters of a text; none when n is not positive.
FirstChars(text, n) == SubSeq(text, 1, SetMin({n, Len(text)}))

\* C24: on the success return, the failed-lookup return and the except return
\* alike, when navigate_sections truncates, the content is exactly the first
\* max_length - 24 characters of the scoped content followed by the
\* 24-character marker.
C24_OneTruncationRule ==
    (NavReturned /\ call.max_length # <<>>
        /\ result.content_length > call.max_length[1]) =>
        result.content =
            FirstChars(ResolvedScope, call.max_length[1] - Len(Marker)) \o Marker

---------------------------------------------------------------------------
(* The loop as a fold with early termination.                              *)

NavRunning == call.op = "navigate_sections"

\* What holds at every point of a call.
FoldInvariant ==
    NavRunning =>
        /\ current_level = Len(lookups)
        /\ current_level <= Len(call.title_path)
        /\ \A i \in 1..Len(lookups) :
               /\ lookups[i].title = call.title_path[i]
               /\ i < Len(lookups) => lookups[i].result.success
               /\ lookups[i].result.success => status_list[i] = 1
        /\ (lookups # <<>> /\ ~lookups[Len(lookups)].result.success) =>
               pc = "returned"
        /\ pc = "loop" => status_list = [i \in 1..Len(lookups) |-> 1]

\* What every step of a running call does.
FoldStep ==
    (pc = "loop") =>
        /\ current_level' \in {current_level, current_level + 1}
        /\ (current_level' = current_level + 1) <=> (Len(lookups') = Len(lookups) + 1)
        /\ Len(lookups') >= Len(lookups)
        /\ SubSeq(lookups', 1, Len(lookups)) = lookups
        /\ Len(lookups') > Len(lookups) =>
               \A i \in 1..Len(lookups) : lookups[i].result.success
        /\ \A i \in 1..Len(status_list) :
               status_list[i] = 1 => (i <= Len(status_list') /\ status_list'[i] = 1)

\* C25: navigate_sections is a left-to-right fold with early termination:
\* element i is looked up only after elements 1..i-1 resolved, a resolved
\* element keeps its status, after a failed lookup nothing more is looked up
\* and the call returns, and current_level starts at 0 and grows by exactly 1
\* before each lookup, so it is always the number of lookups started and
\* never exceeds len(title_path).
C25_FoldWithEarlyExit == []FoldInvariant /\ [][FoldStep]_vars

\* The first lookup of a path of two titles failed and the call returned.
C25_Witness ==
    /\ NavReturned
    /\ Len(call.title_path) = 2
    /\ Len(lookups) = 1
    /\ result.status_list = <<0, -1>>
    /\ result.current_level = 1

---------------------------------------------------------------------------
(* The return of the except block.                                         *)

\* The call returned through its except block.
ExceptReturned == NavReturned /\ result.message.text = "Error at level"

\* C26: when navigate_sections catches an exception it returns success = false
\* with failed_level = current_level, no next_level_titles, a status_list
\* padded as on a failed lookup (a 1 for each resolved element, one 0, then
\* -1), a message naming the level, and the available_titles of the last
\* completed lookup, or none when no lookup completed.
C26_ExceptReport ==
    ExceptReturned =>
        LET resolved == [i \in 1..Len(lookups) |-> 1]
        IN  /\ ~result.success
            /\ result.failed_level = result.current_level
            /\ result.next_level_titles = <<>>
            /\ result.status_list = pad_status(resolved, call.title_path)
            /\ SingleZero(result.status_list)
            /\ result.message.level = result.current_level
            /\ result.available_titles =
                   IF lookups = <<>> THEN <<>>
                   ELSE lookups[Len(lookups)].result.available_titles

---------------------------------------------------------------------------
(* Where in the original document the resolved headings stand.             *)

RECURSIVE ScopeOrigins(_)
\* For the scope left by the first i lookups of the running call: the
\* position, in the lines of the original document, of each of its lines.
ScopeOrigins(i) ==
    IF i = 0 THEN [k \in 1..Len(Split(call.content)) |-> k]
    ELSE LET origins == ScopeOrigins(i - 1)
             lines == Split(lookups[i].content)
             st == find_scan(lookups[i].content, lookups[i].title, lookups[i].level)
             first == st.same_level_indices[1]
             context == SelectLines(SubSeq(origins, 1, first),
                                    [k \in 1..first |->
                                        IsContextLine(lines[k], lookups[i].level)])
             kept == context \o SubSeq(origins, st.target_idx + 1, SectionEnd(st, lines))
         IN  SelectSeq(kept, LAMBDA k : Strip(Split(call.content)[k]) # <<>>)

\* The position in the original document of the heading the i-th lookup selected.
ResolvedAt(i) == ScopeOrigins(i - 1)[lookups[i].target_idx + 1]

\* C27: in a successful navigation, for each i >= 2 the heading resolved for
\* the i-th title stands, in the original document, after the heading
\* resolved for the (i-1)-th title and before the next heading of level
\* <= i-1: a heading outside the section resolved at step i-1 is never taken.
C27_DescendsIntoChildren ==
    (NavReturned /\ result.success) =>
        LET lines == Split(call.content)
        IN  \A i \in 2..Len(lookups) :
                /\ lines[ResolvedAt(i)] = Split(lookups[i].content)[lookups[i].target_idx + 1]
                /\ ResolvedAt(i) > ResolvedAt(i - 1)
                /\ \A k \in (ResolvedAt(i - 1) + 1)..(ResolvedAt(i) - 1) :
                       \A l \in 1..(i - 1) : ~IsLevelHeading(lines[k], l)

---------------------------------------------------------------------------
(* The truncation record of the documentation tool.                        *)

\* C28: in the response of get_api_doc_section, truncation.is_truncated is
\* true exactly when navigate_sections cut the content, that is when
\* content_length > max_length, whatever max_length is, and
\* truncation.original_length is the length of the scoped content before
\* truncation.
C28_IsTruncatedIffCut ==
    (DocReturned /\ call.read = "ok") =>
        LET scoped == navigate_sections(current_content, call.titles, <<>>).content
        IN  /\ result.truncation.is_truncated <=>
                   (last_result.content_length > call.max_length[1])
            /\ result.truncation.is_truncated <=> (result.content # scoped)
            /\ result.truncation.original_length = Len(scoped)

---------------------------------------------------------------------------
(* The HTTP-backed tools of the server. A JSON value is a record with a    *)
(* kind; a key that may be missing holds <<>> when absent and <<v>> when   *)
(* present. Here last_result holds what the request helper returned to the *)
(* tool, lookups records the outbound requests and result is what the tool *)
(* returns: the dict it serialises, or the exception it raises.            *)

GetTools == {"get_ollama_list", "get_ollama_version", "get_running_models"}

PostTools == {"post_generate_embeddings", "simple_chat", "post_show_model",
              "simple_generate"}

HttpTools == GetTools \cup PostTools

\* The endpoint name each tool passes to its request helper.
EndpointOf(tool) ==
    CASE tool = "get_ollama_list" -> "tags"
      [] tool = "get_ollama_version" -> "version"
      [] tool = "get_running_models" -> "ps"
      [] tool = "post_generate_embeddings" -> "embed"
      [] tool = "simple_chat" -> "chat"
      [] tool = "post_show_model" -> "show"
      [] tool = "simple_generate" -> "generate"

MethodOf(tool) == IF tool \in GetTools THEN "GET" ELSE "POST"

\* API_GET_ENDPOINTS and API_POST_ENDPOINTS as config.json can define them.
EndpointConfigs ==
    {[GET |-> g, POST |-> p] :
        g \in {{"tags", "version", "ps"}, {"version"}, {}},
        p \in {{"embed", "chat", "show", "generate"}, {"embed", "show"}, {}}}

\* A JSON value that is not an object.
NonDict == [kind |-> "list"]

Absent == <<>>

\* The numbers a duration or a count can be.
Numbers == {0, 7}

OptionalNumbers == {Absent} \cup {<<n>> : n \in Numbers}

\* The timing fields of a chat or generate response.
Timings ==
    [total_duration : OptionalNumbers, prompt_eval_count : {Absent, <<7>>},
     eval_count : OptionalNumbers, eval_duration : OptionalNumbers]

\* The values of the "message" key: a string, or an object with or without
\* content and role.
Messages ==
    {[kind |-> "str"]}
        \cup {[kind |-> "dict", content |-> c, role |-> r] :
                 c \in {Absent, <<"text">>}, r \in {Absent, <<"assistant">>}}

ChatBodies ==
    {NonDict} \cup
    {[kind |-> "dict", message |-> m, timings |-> t] :
        m \in {Absent} \cup {<<x>> : x \in Messages}, t \in Timings}

GenerateBodies ==
    {NonDict} \cup
    {[kind |-> "dict", response |-> r, timings |-> t] :
        r \in {Absent, <<"text">>}, t \in Timings}

\* The values of the "models" key: a string, an empty list, a list.
ModelsBodies ==
    {NonDict} \cup
    {[kind |-> "dict", models |-> m] :
        m \in {Absent, <<[kind |-> "str"]>>, <<[kind |-> "list", len |-> 0]>>,
               <<[kind |-> "list", len |-> 1]>>}}

\* The values of the "embeddings" key: a string, an empty list, a list of
\* vectors, a list of numbers.
EmbedBodies ==
    {NonDict} \cup
    {[kind |-> "dict", embeddings |-> e, total_duration |-> d] :
        e \in {Absent, <<[kind |-> "str"]>>,
               <<[kind |-> "list", len |-> 0, first |-> "none"]>>,
               <<[kind |-> "list", len |-> 1, first |-> "list"]>>,
               <<[kind |-> "list", len |-> 1, first |-> "number"]>>},
        d \in OptionalNumbers}

PlainBodies == {NonDict, [kind |-> "dict"]}

\* What response.json() can give each tool.
BodiesOf(tool) ==
    CASE tool \in {"get_ollama_list", "get_running_models"} -> ModelsBodies
      [] tool \in {"get_ollama_version", "post_show_model"} -> PlainBodies
      [] tool = "post_generate_embeddings" -> EmbedBodies
      [] tool = "simple_chat" -> ChatBodies
      [] tool = "simple_generate" -> GenerateBodies

\* return json.dumps(value, indent=2)
json_return(value) == [kind |-> "json", value |-> value]

\* The error dicts of the tools, by their "error" field.
error_return(code) == json_return([error |-> code])

\* The tool does not return: the exception leaves it.
raise_return(exception) == [kind |-> "raised", exception |-> exception]

\* response["eval_count"] / eval_duration_sec divides by 0.0.
DividesByZero(timings) ==
    /\ timings.eval_duration # Absent
    /\ timings.eval_count # Absent
    /\ timings.eval_duration[1] = 0

\* The metrics dict; a quotient is kept as its two operands.
performance_metrics(timings) ==
    [duration_ms |->
         IF timings.total_duration # Absent
         THEN <<[num |-> timings.total_duration[1], den |-> 1000000]>> ELSE Absent,
     input_tokens |-> timings.prompt_eval_count,
     output_tokens |-> timings.eval_count,
     tokens_per_second |->
         IF timings.eval_duration # Absent /\ timings.eval_count # Absent
         THEN <<[num |-> timings.eval_count[1],
                 den |-> [num |-> timings.eval_duration[1], den |-> 1000000000]]>>
         ELSE Absent]

\* if metrics: result["metadata"]["performance"] = metrics
performance(timings) ==
    LET metrics == performance_metrics(timings)
    IN  IF \E k \in DOMAIN metrics : metrics[k] # Absent THEN <<metrics>> ELSE Absent

simple_chat(model, prompt, response) ==
    IF response = None THEN error_return("connection_failed")
    ELSE IF response.kind # "dict" THEN error_return("invalid_response")
    ELSE LET message == IF response.message = Absent
                        THEN [kind |-> "dict", content |-> Absent, role |-> Absent]
                        ELSE response.message[1]
         IN  IF message.kind # "dict" THEN error_return("invalid_message")
             ELSE IF message.content = Absent THEN error_return("missing_content")
             ELSE IF DividesByZero(response.timings)
             THEN raise_return("ZeroDivisionError")
             ELSE json_return(
                    [response |-> [content |-> message.content[1],
                                   role |-> IF message.role = Absent
                                            THEN "assistant" ELSE message.role[1]],
                     metadata |-> [model |-> model,
                                   input |-> [role |-> "user", content |-> prompt],
                                   performance |-> performance(response.timings)]])

simple_generate(model, prompt, response) ==
    IF response = None THEN error_return("connection_failed")
    ELSE IF response.kind # "dict" THEN error_return("invalid_response")
    ELSE IF response.response = Absent THEN error_return("missing_response")
    ELSE IF DividesByZero(response.timings) THEN raise_return("ZeroDivisionError")
    ELSE json_return(
           [response |-> [text |-> response.response[1]],
            metadata |-> [model |-> model, input |-> prompt,
                          performance |-> performance(response.timings)]])

\* get_ollama_list and get_running_models: the same checks on "models".
models_return(reply) ==
    IF reply = None THEN error_return("connection_failed")
    ELSE IF reply.kind # "dict" THEN error_return("invalid_response")
    ELSE LET models == IF reply.models = Absent
                       THEN [kind |-> "list", len |-> 0] ELSE reply.models[1]
         IN  IF models.kind # "list" THEN error_return("invalid_models")
             ELSE IF models.len = 0 THEN error_return("no_models")
             ELSE json_return(reply)

get_ollama_list(reply) == models_return(reply)

get_running_models(reply) == models_return(reply)

get_ollama_version(reply) ==
    IF reply = None THEN error_return("connection_failed") ELSE json_return(reply)

post_show_model(response) ==
    IF response = None THEN error_return("connection_failed")
    ELSE json_return(response)

post_generate_embeddings(response) ==
    IF response = None THEN error_return("connection_failed")
    ELSE IF response.kind # "dict" THEN error_return("invalid_response")
    ELSE IF response.embeddings = Absent THEN error_return("missing_embeddings")
    ELSE LET embeddings == response.embeddings[1]
         IN  IF embeddings.kind # "list" \/ embeddings.len = 0
             THEN error_return("invalid_embeddings")
             ELSE IF embeddings.first # "list" THEN raise_return("TypeError")
             ELSE json_return(
                    [embeddings |-> embeddings,
                     metadata |-> [count |-> embeddings.len,
                                   duration_ms |->
                                       IF response.total_duration # Absent
                                       THEN <<[num |-> response.total_duration[1],
                                               den |-> 1000000]>>
                                       ELSE Absent]])

\* What the tool makes of the value its request helper returned.
tool_return(tool, model, prompt, response) ==
    CASE tool = "get_ollama_list" -> get_ollama_list(response)
      [] tool = "get_ollama_version" -> get_ollama_version(response)
      [] tool = "get_running_models" -> get_running_models(response)
      [] tool = "post_generate_embeddings" -> post_generate_embeddings(response)
      [] tool = "simple_chat" -> simple_chat(model, prompt, response)
      [] tool = "post_show_model" -> post_show_model(response)
      [] tool = "simple_generate" -> simple_generate(model, prompt, response)

\* A tool is called: it builds its data and calls its request helper.
ToolCall(tool, endpoints) ==
    /\ pc = "idle"
    /\ call' = [op |-> tool, model |-> "llama2", prompt |-> "hello",
                endpoints |-> endpoints, outcome |-> "pending"]
    /\ pc' = "helper"
    /\ UNCHANGED <<current_content, current_level, status_list, last_result,
                   idx, lookups, result>>

\* if endpoint_name not in API_..._ENDPOINTS: return None
EndpointUnknown ==
    /\ pc = "helper"
    /\ EndpointOf(call.op) \notin call.endpoints[MethodOf(call.op)]
    /\ call' = [call EXCEPT !.outcome = "unknown_endpoint"]
    /\ last_result' = None
    /\ pc' = "tool"
    /\ UNCHANGED <<current_content, current_level, status_list, idx, lookups, result>>

\* await client.get(...) or await client.post(...): the request goes out.
SendRequest ==
    /\ pc = "helper"
    /\ EndpointOf(call.op) \in call.endpoints[MethodOf(call.op)]
    /\ lookups' = Append(lookups, [method |-> MethodOf(call.op),
                                   endpoint |-> EndpointOf(call.op)])
    /\ pc' = "awaiting"
    /\ UNCHANGED <<call, current_content, current_level, status_list,
                   last_result, idx, result>>

\* A helper that sends the request once more after a first failure.
RequestFailed_retry(exception) ==
    /\ pc = "awaiting"
    /\ IF Len(lookups) < 2
       THEN /\ pc' = "helper"
            /\ UNCHANGED <<call, last_result>>
       ELSE /\ call' = [call EXCEPT !.outcome = exception]
            /\ last_result' = None
            /\ pc' = "tool"
    /\ UNCHANGED <<current_content, current_level, status_list, idx, lookups, result>>

\* The request, raise_for_status or response.json() raises: the except
\* clauses return None.
RequestFailed(exception) ==
    /\ pc = "awaiting"
    /\ call' = [call EXCEPT !.outcome = exception]
    /\ last_result' = None
    /\ pc' = "tool"
    /\ UNCHANGED <<current_content, current_level, status_list, idx, lookups, result>>

\* return response.json()
ResponseOk(body) ==
    /\ pc = "awaiting"
    /\ call' = [call EXCEPT !.outcome = "ok"]
    /\ last_result' = body
    /\ pc' = "tool"
    /\ UNCHANGED <<current_content, current_level, status_list, idx, lookups, result>>

\* The tool checks what the helper returned and returns.
ToolReturn ==
    /\ pc = "tool"
    /\ result' = tool_return(call.op, call.model, call.prompt, last_result)
    /\ pc' = "returned"
    /\ UNCHANGED <<call, current_content, current_level, status_list,
                   last_result, idx, lookups>>

HttpToolCall ==
    /\ pc = "idle"
    /\ \E tool \in HttpTools, endpoints \in EndpointConfigs : ToolCall(tool, endpoints)

RequestFails ==
    \E exception \in {"HTTPError", "Exception"} : RequestFailed(exception)

ResponseArrives ==
    /\ pc = "awaiting"
    /\ \E body \in BodiesOf(call.op) : ResponseOk(body)

HttpNext ==
    \/ HttpToolCall
    \/ EndpointUnknown
    \/ SendRequest
    \/ RequestFails
    \/ ResponseArrives
    \/ ToolReturn
    \/ Return

SpecHttp == Init /\ [][HttpNext]_vars

HttpRunning == call.op \in HttpTools

HttpReturned == pc = "returned" /\ HttpRunning

\* C21: an invocation of an HTTP-backed tool issues at most one outbound
\* request, never sends it again after a failure, issues none when the
\* endpoint name is not configured, and every failure of the request reaches
\* the tool as None instead of an exception.
C21_OneRequestNoRetry ==
    HttpRunning =>
        /\ Len(lookups) <= 1
        /\ lookups # <<>> =>
               lookups[1] = [method |-> MethodOf(call.op),
                             endpoint |-> EndpointOf(call.op)]
        /\ EndpointOf(call.op) \notin call.endpoints[MethodOf(call.op)] =>
               lookups = <<>>
        /\ call.outcome \in {"unknown_endpoint", "HTTPError", "Exception"} =>
               /\ pc \in {"tool", "returned"}
               /\ last_result = None

\* A tool has returned after its one request failed.
C21_Witness ==
    /\ HttpReturned
    /\ call.outcome = "HTTPError"
    /\ Len(lookups) = 1
    /\ result = error_return("connection_failed")

\* A chat or generate response object that has its content or response field.
HasExpectedField ==
    /\ last_result # None
    /\ last_result.kind = "dict"
    /\ IF call.op = "simple_chat"
       THEN /\ last_result.message # Absent
            /\ last_result.message[1].kind = "dict"
            /\ last_result.message[1].content # Absent
       ELSE last_result.response # Absent

\* C29: simple_chat and simple_generate return a JSON string for every value
\* their POST helper returns and never raise: None gives connection_failed, a
\* value that is not a dict gives invalid_response, a dict without the
\* content / response field gives missing_content / missing_response, and
\* any other dict gives a result record, whatever numbers, zero included, its
\* total_duration, eval_count and eval_duration hold.
C29_ChatAndGenerateAlwaysReturn ==
    (HttpReturned /\ call.op \in {"simple_chat", "simple_generate"}) =>
        /\ result.kind = "json"
        /\ last_result = None => result = error_return("connection_failed")
        /\ (last_result # None /\ last_result.kind # "dict") =>
               result = error_return("invalid_response")
        /\ (last_result # None /\ last_result.kind = "dict" /\ ~HasExpectedField) =>
               result \in {error_return("missing_content"),
                           error_return("missing_response"),
                           error_return("invalid_message")}
        /\ HasExpectedField =>
               /\ "error" \notin DOMAIN result.value
               /\ "response" \in DOMAIN result.value

====
